---- MODULE Spec2Model ----
(***************************************************************************)
(* The exercise lifecycle controller of exercise/exercise.go: the struct   *)
(* `exercise` with its machine list, IP table and DNS record set, and the  *)
(* operations Create, Start, Stop, Close, Restart and Reset.               *)
(*                                                                         *)
(* Every operation is one action.  The collaborators the controller calls  *)
(* (DockerHost.CreateContainer, Network.Connect, vbox Library.GetCopy and  *)
(* the Start/Stop/Close primitives of virtual.Instance) are the            *)
(* environment: an action draws which of the calls the handler makes, if   *)
(* any, fails.  The calls the handler really makes are recorded, in order, *)
(* in `calls`, and what each (sub-)operation returned in `returns`.        *)
(***************************************************************************)
EXTENDS Integers, Sequences, FiniteSets, TLC

\* ---------------------------------------------------------------- bounds
MaxContainers == 2
MaxVMs        == 2
MaxRecords    == 2
MaxInstances  == 4

\* ------------------------------------------------------------ basic values
\* A Go error value.  nil is NoErr; the error a collaborator call returns is
\* identified by the call that produced it, so two failures are never equal
\* by accident.
NoErr == <<>>
Err(fn, at) == <<fn, at>>

\* A Go string is a sequence of tokens; "" is the empty sequence.
EmptyString == <<>>

\* The record templates an exercise configuration may carry
\* (store.RecordConfig: Type, Name, RData).
Templates ==
    { [Type |-> "A",     Name |-> "web",   RData |-> EmptyString],
      [Type |-> "CNAME", Name |-> "alias", RData |-> <<"static.example">>] }

RecordLists == UNION { [1..n -> Templates] : n \in 0..MaxRecords }

\* The first last octet the exercise network hands out (the gateway holds
\* the one before it).
FirstOctet == 2

\* Connect(c) without a fixed address.
Auto == 0

VARIABLES
    conf,        \* e.conf: [records: per container spec its record templates,
                 \*          VBoxConfig: the VM specs (image names)]
    machines,    \* e.machines: sequence of instance ids
    ips,         \* e.ips: sequence of last octets; nil is <<>>
    dnsRecords,  \* e.dnsRecords
    nextOctet,   \* e.net: the next available last octet of the exercise network
    bound,       \* e.net: <<instance, octet>> for every connected instance that
                 \* has not been released
    provisioned, \* how many instances the provisioning collaborators have
                 \* returned so far; they are numbered 1..provisioned
    released,    \* ids whose Close primitive has returned nil
    calls,       \* the collaborator calls of the last operation, in order
    returns,     \* <<operation, error>> of each (sub-)operation of the last
                 \* top-level call, in order of return; the last is the call's
    ipsAtCreate  \* <<TRUE, e.ips>> as the last top-level Create() that returned
                 \* nil left it; <<FALSE, <<>> >> before any

\* The tag validator (tagRegex of exercise.go).
VARIABLES
    tag,         \* the string handed to tagRegex.MatchString, as code points
    tagMatch     \* "unchecked", then what MatchString returned

exVars == <<conf, machines, ips, dnsRecords, nextOctet, bound, provisioned, released, calls, returns,
            ipsAtCreate>>
tagVars == <<tag, tagMatch>>

\* The event config store and the event file (store/event.go).
VARIABLES
    hooks,       \* es.hooks: the registered hooks, in registration order
    esConf,      \* es.conf: Capacity, and FinishedAt which is nil (<<>>) or &t (<<t>>)
    esM,         \* es.m: the set of goroutines holding the store mutex
    efM,         \* ef.m: the set of goroutines holding the event-file mutex
    fileConf,    \* ef.file.EventConfig
    fileTeams,   \* ef.file.Teams
    proc,        \* per goroutine: where it is in its call, and its locals
    ncalls,      \* how many calls have been made
    hookLog,     \* the hook invocations of the latest mutation, in order
    lastFailed,  \* <<op, arg>> of a mutating call that returned an error with
                 \* no mutation applied since; otherwise <<>>
    lastRead,    \* what Read returned, if it returned since the latest
                 \* mutation; otherwise <<>>
    hookFailed,  \* whether any hook has returned an error so far
    applied      \* per field, the argument of the latest mutation applied

storeVars == <<hooks, esConf, esM, efM, fileConf, fileTeams, proc, ncalls, hookLog,
               lastFailed, lastRead, hookFailed, applied>>

vars == <<exVars, tagVars, storeVars>>

NumContainers == Len(conf.records)
NumVMs == Len(conf.VBoxConfig)

\* The last top-level operation and what it returned.
op  == IF returns = <<>> THEN "none" ELSE returns[Len(returns)][1]
ret == IF returns = <<>> THEN NoErr ELSE returns[Len(returns)][2]

\* One recorded collaborator call.
Call(fn, spec, inst, req, res, err) ==
    [fn |-> fn, spec |-> spec, inst |-> inst, req |-> req, res |-> res, err |-> err]

\* The controller's fields plus the environment the handlers act on.
E == [machines |-> machines, ips |-> ips, dnsRecords |-> dnsRecords,
      nextOctet |-> nextOctet, bound |-> bound, provisioned |-> provisioned, released |-> released, calls |-> <<>>]

\* ------------------------------------------------------------ Start, Stop
\* m.Start() / m.Stop() / m.Close() on instance m: ok says whether the
\* primitive succeeds.
Primitive(fn, m, ok) == IF ok THEN NoErr ELSE Err(fn, m)

\* for _, m := range e.machines { if err := m.Start(); err != nil { return err } }
RECURSIVE StartFrom(_, _, _)
StartFrom(e, ok, i) ==
    IF i > Len(e.machines) THEN [e |-> e, err |-> NoErr]
    ELSE LET m   == e.machines[i]
             err == Primitive("Start", m, ok[i])
             e1  == [e EXCEPT !.calls = Append(@, Call("Start", 0, m, 0, 0, err))]
         IN  IF err # NoErr THEN [e |-> e1, err |-> err]
             ELSE StartFrom(e1, ok, i + 1)

\* A Start() that refuses an empty machine list.
StartRequiringMachines(e, ok) ==
    IF e.machines = <<>> THEN [e |-> e, err |-> Err("Start", 0)]
    ELSE StartFrom(e, ok, 1)

Start(e, ok) == StartFrom(e, ok, 1)

\* A Stop() loop that records the error and goes on to the next instance.
RECURSIVE StopFromContinue(_, _, _)
StopFromContinue(e, ok, i) ==
    IF i > Len(e.machines) THEN [e |-> e, err |-> NoErr]
    ELSE LET m   == e.machines[i]
             err == Primitive("Stop", m, ok[i])
             e1  == [e EXCEPT !.calls = Append(@, Call("Stop", 0, m, 0, 0, err))]
             r   == StopFromContinue(e1, ok, i + 1)
         IN  [e |-> r.e, err |-> IF err # NoErr THEN err ELSE r.err]

RECURSIVE StopFrom(_, _, _)
StopFrom(e, ok, i) ==
    IF i > Len(e.machines) THEN [e |-> e, err |-> NoErr]
    ELSE LET m   == e.machines[i]
             err == Primitive("Stop", m, ok[i])
             e1  == [e EXCEPT !.calls = Append(@, Call("Stop", 0, m, 0, 0, err))]
         IN  IF err # NoErr THEN [e |-> e1, err |-> err]
             ELSE StopFrom(e1, ok, i + 1)

\* A Stop() that forgets the instances it has stopped.
StopForgetting(e, ok) ==
    LET r == StopFrom(e, ok, 1)
    IN  IF r.err # NoErr THEN r
        ELSE [e |-> [r.e EXCEPT !.machines = <<>>], err |-> NoErr]

Stop(e, ok) == StopFrom(e, ok, 1)

\* ------------------------------------------------------------------ Close
RECURSIVE CloseFrom(_, _, _)
CloseFrom(e, ok, i) ==
    IF i > Len(e.machines) THEN [e |-> e, err |-> NoErr]
    ELSE LET m   == e.machines[i]
             err == Primitive("Close", m, ok[i])
             e1  == [e EXCEPT !.calls = Append(@, Call("Close", 0, m, 0, 0, err)),
                              !.released = IF err = NoErr THEN @ \cup {m} ELSE @,
                              !.bound = IF err = NoErr THEN { b \in @ : b[1] # m } ELSE @]
         IN  IF err # NoErr THEN [e |-> e1, err |-> err]
             ELSE CloseFrom(e1, ok, i + 1)

\* A Close() that clears the machine list whether or not the loop failed.
CloseAlwaysClears(e, ok) ==
    LET r == CloseFrom(e, ok, 1)
    IN  [e |-> [r.e EXCEPT !.machines = <<>>], err |-> r.err]

\* A Close() that forgets the IP table along with the machine list.
CloseClearsIps(e, ok) ==
    LET r == CloseFrom(e, ok, 1)
    IN  IF r.err # NoErr THEN r
        ELSE [e |-> [r.e EXCEPT !.machines = <<>>, !.ips = <<>>], err |-> NoErr]

\* e.machines = nil only after the loop has released every instance.
Close(e, ok) ==
    LET r == CloseFrom(e, ok, 1)
    IN  IF r.err # NoErr THEN r
        ELSE [e |-> [r.e EXCEPT !.machines = <<>>], err |-> NoErr]

\* ----------------------------------------------------------------- Create
\* e.net.Connect(c, ip...): binds instance c to the network.  With a fixed
\* octet the network honours it, or fails (always so when an instance that
\* has not been released holds the octet); without one it assigns its next
\* available octet, `next`.
Connect(c, req, next, inUse, ok) ==
    IF ~ok \/ (req # Auto /\ req \in inUse)
    THEN [lastDigit |-> 0, err |-> Err("Connect", c)]
    ELSE [lastDigit |-> IF req # Auto THEN req ELSE next, err |-> NoErr]

\* e.net.FormatIP(lastDigit): the subnet prefix followed by the octet.
FormatIP(lastDigit) == <<"172.16.5", lastDigit>>

\* A defaulting that overwrites every target, set or not.
DefaultRDataAlways(record, ipaddr) == [record EXCEPT !.RData = ipaddr]

\* if record.RData == "" { record.RData = ipaddr }
DefaultRData(record, ipaddr) ==
    IF record.RData = EmptyString THEN [record EXCEPT !.RData = ipaddr] ELSE record

\* for _, record := range records[i] { ...; e.dnsRecords = append(e.dnsRecords, record) }
AppendRecords(dns, records, ipaddr) ==
    dns \o [k \in 1..Len(records) |-> DefaultRData(records[k], ipaddr)]

\* An append at the front of the list.
AppendMachineInFront(ms, c) == <<c>> \o ms

\* machines = append(machines, c)
AppendMachine(ms, c) == Append(ms, c)

\* A request that always leaves the choice of the address to the network.
RequestOctetAuto(oldIps, i) == Auto

\* if e.ips != nil { Connect(c, e.ips[i]) } else { Connect(c) }: the octet
\* the controller asks the network for.
RequestOctet(oldIps, i) == IF oldIps # <<>> THEN oldIps[i] ELSE Auto

\* The container loop.  loc holds the locals `machines` and `newIps`;
\* e.dnsRecords is appended to in place.
RECURSIVE CreateContainers(_, _, _, _)
CreateContainers(e, loc, in, i) ==
    IF i > NumContainers THEN [e |-> e, loc |-> loc, err |-> NoErr]
    ELSE IF ~in.createOk[i]
    THEN [e   |-> [e EXCEPT !.calls = Append(@,
                       Call("CreateContainer", i, 0, 0, 0, Err("CreateContainer", i)))],
          loc |-> loc,
          err |-> Err("CreateContainer", i)]
    ELSE LET c   == e.provisioned + 1
             e1  == [e EXCEPT !.provisioned = c,
                              !.calls = Append(@, Call("CreateContainer", i, c, 0, 0, NoErr))]
             req == RequestOctet(e.ips, i)
             cn  == Connect(c, req, e.nextOctet, { b[2] : b \in e.bound }, in.connectOk[i])
             e2  == [e1 EXCEPT !.calls = Append(@,
                        Call("Connect", i, c, req, cn.lastDigit, cn.err)),
                               !.nextOctet = IF req = Auto /\ cn.err = NoErr
                                             THEN @ + 1 ELSE @,
                               !.bound = IF cn.err = NoErr
                                         THEN @ \cup {<<c, cn.lastDigit>>} ELSE @]
         IN  IF cn.err # NoErr THEN [e |-> e2, loc |-> loc, err |-> cn.err]
             ELSE LET newIps == IF e.ips # <<>> THEN loc.newIps
                                ELSE Append(loc.newIps, cn.lastDigit)
                      ipaddr == FormatIP(cn.lastDigit)
                      e3 == [e2 EXCEPT !.dnsRecords =
                                 AppendRecords(@, conf.records[i], ipaddr)]
                  IN  CreateContainers(e3,
                          [machines |-> AppendMachine(loc.machines, c), newIps |-> newIps],
                          in, i + 1)

\* The VM loop: e.lib.GetCopy(spec.Image, ...) for each entry of VBoxConfig.
RECURSIVE CreateVMs(_, _, _, _)
CreateVMs(e, loc, in, j) ==
    IF j > NumVMs THEN [e |-> e, loc |-> loc, err |-> NoErr]
    ELSE IF ~in.vmOk[j]
    THEN [e   |-> [e EXCEPT !.calls = Append(@,
                       Call("GetCopy", j, 0, 0, 0, Err("GetCopy", j)))],
          loc |-> loc,
          err |-> Err("GetCopy", j)]
    ELSE LET vm == e.provisioned + 1
             e1 == [e EXCEPT !.provisioned = vm,
                             !.calls = Append(@, Call("GetCopy", j, vm, 0, 0, NoErr))]
         IN  CreateVMs(e1, [loc EXCEPT !.machines = AppendMachine(@, vm)], in, j + 1)

\* An assignment of the IP table without the nil check.
SetIpsAlways(oldIps, newIps) == newIps

\* if e.ips == nil { e.ips = newIps }
SetIps(oldIps, newIps) == IF oldIps = <<>> THEN newIps ELSE oldIps

Create(e, in) ==
    LET r1 == CreateContainers(e, [machines |-> <<>>, newIps |-> <<>>], in, 1)
    IN  IF r1.err # NoErr THEN [e |-> r1.e, err |-> r1.err]
        ELSE LET r2 == CreateVMs(r1.e, r1.loc, in, 1)
             IN  IF r2.err # NoErr THEN [e |-> r2.e, err |-> r2.err]
                 ELSE [e   |-> [r2.e EXCEPT !.ips = SetIps(@, r2.loc.newIps),
                                            !.machines = r2.loc.machines],
                       err |-> NoErr]

\* ---------------------------------------------------------- Restart, Reset
\* Each composed handler also gives the <<operation, error>> of the
\* sub-operations it ran, in order.
\* A Restart() that drops the error of Stop() and starts anyway.
RestartIgnoringStop(e, in) ==
    LET r1 == Stop(e, in.stopOk)
        r2 == Start(r1.e, in.startOk)
    IN  [e |-> r2.e, err |-> IF r1.err # NoErr THEN r1.err ELSE r2.err,
         subs |-> << <<"Stop", r1.err>>, <<"Start", r2.err>> >>]

Restart(e, in) ==
    LET r1 == Stop(e, in.stopOk)
    IN  IF r1.err # NoErr
        THEN [e |-> r1.e, err |-> r1.err, subs |-> << <<"Stop", r1.err>> >>]
        ELSE LET r2 == Start(r1.e, in.startOk)
             IN  [e |-> r2.e, err |-> r2.err,
                  subs |-> << <<"Stop", r1.err>>, <<"Start", r2.err>> >>]

\* A Reset() that goes on to Create() after a failed Close().
ResetIgnoringClose(e, in) ==
    LET r1 == Close(e, in.closeOk)
        r2 == Create(r1.e, in.create)
    IN  IF r2.err # NoErr
        THEN [e |-> r2.e, err |-> r2.err,
              subs |-> << <<"Close", r1.err>>, <<"Create", r2.err>> >>]
        ELSE LET r3 == Start(r2.e, in.startOk)
             IN  [e |-> r3.e, err |-> r3.err,
                  subs |-> << <<"Close", r1.err>>, <<"Create", r2.err>>,
                              <<"Start", r3.err>> >>]

\* A Reset() that ends after Create(), without Start().
ResetSkippingStart(e, in) ==
    LET r1 == Close(e, in.closeOk)
    IN  IF r1.err # NoErr
        THEN [e |-> r1.e, err |-> r1.err, subs |-> << <<"Close", r1.err>> >>]
        ELSE LET r2 == Create(r1.e, in.create)
             IN  [e |-> r2.e, err |-> r2.err,
                  subs |-> << <<"Close", r1.err>>, <<"Create", r2.err>> >>]

Reset(e, in) ==
    LET r1 == Close(e, in.closeOk)
    IN  IF r1.err # NoErr
        THEN [e |-> r1.e, err |-> r1.err, subs |-> << <<"Close", r1.err>> >>]
        ELSE LET r2 == Create(r1.e, in.create)
             IN  IF r2.err # NoErr
                 THEN [e |-> r2.e, err |-> r2.err,
                       subs |-> << <<"Close", r1.err>>, <<"Create", r2.err>> >>]
                 ELSE LET r3 == Start(r2.e, in.startOk)
                      IN  [e |-> r3.e, err |-> r3.err,
                           subs |-> << <<"Close", r1.err>>, <<"Create", r2.err>>,
                                       <<"Start", r3.err>> >>]

\* ------------------------------------------------------------ environment
\* A handler returns at the first call that fails, so what the calls after
\* it would have answered is never consulted: the answers drawn for one loop
\* over n calls are "call f fails" for f in 1..n, or "none fails" (f = 0).
AllOk(n) == [i \in 1..n |-> TRUE]
Outcomes(n) == { [i \in 1..n |-> i # f] : f \in 0..n }
Failing(n) == Outcomes(n) \ {AllOk(n)}

\* What the collaborators answer during one Create(): its calls are, in
\* order, CreateContainer and Connect for each container spec, then GetCopy
\* for each VM spec.
CreateAnswers(f) ==
    [createOk  |-> [i \in 1..NumContainers |-> 2 * i - 1 # f],
     connectOk |-> [i \in 1..NumContainers |-> 2 * i # f],
     vmOk      |-> [j \in 1..NumVMs |-> 2 * NumContainers + j # f]]

CreateInputs == { CreateAnswers(f) : f \in 0..(2 * NumContainers + NumVMs) }

\* The answers during one Reset(): those of a failing Close(); or of a
\* Close() that succeeds and a Create() that fails; or of both succeeding
\* and the Start() over the new machine list.
ResetInputs(e) ==
    LET n == Len(e.machines)
        m == NumContainers + NumVMs
    IN  { [closeOk |-> c, create |-> CreateAnswers(0), startOk |-> AllOk(m)] :
            c \in Failing(n) }
        \cup
        { [closeOk |-> AllOk(n), create |-> in, startOk |-> AllOk(m)] :
            in \in CreateInputs \ {CreateAnswers(0)} }
        \cup
        { [closeOk |-> AllOk(n), create |-> CreateAnswers(0), startOk |-> t] :
            t \in Outcomes(m) }

RestartInputs(e) ==
    LET n == Len(e.machines)
    IN  { [stopOk |-> s, startOk |-> AllOk(n)] : s \in Failing(n) }
        \cup
        { [stopOk |-> AllOk(n), startOk |-> t] : t \in Outcomes(n) }

\* The collaborators hand out at most MaxInstances instances in one run.
CanProvision == provisioned + NumContainers + NumVMs <= MaxInstances

\* The state after a top-level call `name` that ended in r.
Finish(name, r, subs) ==
    /\ machines'    = r.e.machines
    /\ ips'         = r.e.ips
    /\ dnsRecords'  = r.e.dnsRecords
    /\ nextOctet'   = r.e.nextOctet
    /\ bound'       = r.e.bound
    /\ provisioned' = r.e.provisioned
    /\ released'    = r.e.released
    /\ calls'       = r.e.calls
    /\ returns'     = Append(subs, <<name, r.err>>)
    /\ ipsAtCreate' = IF name = "Create" /\ r.err = NoErr
                      THEN <<TRUE, r.e.ips>> ELSE ipsAtCreate
    /\ UNCHANGED <<conf, tagVars, storeVars>>

\* ---------------------------------------------------------------- actions
DoCreate ==
    /\ CanProvision
    /\ \E in \in CreateInputs : Finish("Create", Create(E, in), <<>>)

DoStart == \E ok \in Outcomes(Len(machines)) : Finish("Start", Start(E, ok), <<>>)

DoStop == \E ok \in Outcomes(Len(machines)) : Finish("Stop", Stop(E, ok), <<>>)

DoClose == \E ok \in Outcomes(Len(machines)) : Finish("Close", Close(E, ok), <<>>)

DoRestart ==
    \E in \in RestartInputs(E) :
        LET r == Restart(E, in) IN Finish("Restart", r, r.subs)

DoReset ==
    /\ CanProvision
    /\ \E in \in ResetInputs(E) :
        LET r == Reset(E, in) IN Finish("Reset", r, r.subs)

\* The configurations: up to MaxContainers container specs carrying at most
\* MaxRecords record templates between them, and up to MaxVMs VM specs.
RECURSIVE TotalLen(_)
TotalLen(ss) == IF ss = <<>> THEN 0 ELSE Len(Head(ss)) + TotalLen(Tail(ss))

Confs ==
    { [records |-> r, VBoxConfig |-> [j \in 1..m |-> <<"image", j>>]] :
        r \in { x \in UNION { [1..n -> RecordLists] : n \in 0..MaxContainers } :
                  TotalLen(x) <= MaxRecords },
        m \in 0..MaxVMs }

\* No tag is being validated.
NoTag == tag = <<>> /\ tagMatch = "unchecked"

\* No event config store.
NoStore ==
    /\ hooks = <<>>
    /\ esConf = <<>>
    /\ esM = {}
    /\ efM = {}
    /\ fileConf = <<>>
    /\ fileTeams = <<>>
    /\ proc = <<>>
    /\ ncalls = 0
    /\ hookLog = <<>>
    /\ lastFailed = <<>>
    /\ lastRead = <<>>
    /\ hookFailed = FALSE
    /\ applied = <<>>

\* NewExercise: a configuration, no machines, no IP table, no records.
Init ==
    /\ NoTag
    /\ NoStore
    /\ conf \in Confs
    /\ machines = <<>>
    /\ ips = <<>>
    /\ dnsRecords = <<>>
    /\ nextOctet = FirstOctet
    /\ bound = {}
    /\ provisioned = 0
    /\ released = {}
    /\ calls = <<>>
    /\ returns = <<>>
    /\ ipsAtCreate = <<FALSE, <<>> >>

Next == DoCreate \/ DoStart \/ DoStop \/ DoClose \/ DoRestart \/ DoReset

Spec == Init /\ [][Next]_vars

\* ------------------------------------------------------- reading the log
Range(seq) == { seq[k] : k \in 1..Len(seq) }

\* Create() ran to its end and returned nil: as the top-level call, or as
\* the second step of Reset().
CreateSucceeded == <<"Create", NoErr>> \in Range(returns)

\* Create() ran at all during the last top-level call.
CreateRan == \E r \in Range(returns) : r[1] = "Create"

\* The positions of the log that are calls of fn.
CallsOf(fn) == { k \in 1..Len(calls) : calls[k].fn = fn }

\* The instances the provisioning collaborators returned during the last
\* top-level call, in the order they were returned.
IsProvisioned(c) == c.fn \in {"CreateContainer", "GetCopy"} /\ c.err = NoErr
Provisions == SelectSeq(calls, IsProvisioned)

\* The successful Connect calls of a log, in order.
IsConnected(c) == c.fn = "Connect" /\ c.err = NoErr
Connects(log) == SelectSeq(log, IsConnected)

\* Which step of Reset() a collaborator call belongs to.
Phase(c) == CASE c.fn = "Close" -> 1
              [] c.fn \in {"CreateContainer", "Connect", "GetCopy"} -> 2
              [] c.fn = "Start" -> 3

\* The record a template stands for once its container is bound to octet.
Synthesized(template, octet) ==
    [Type  |-> template.Type,
     Name  |-> template.Name,
     RData |-> IF template.RData = EmptyString THEN FormatIP(octet)
               ELSE template.RData]

\* The records of the containers a log connected, in container order and
\* then template order.
RECURSIVE SynthesizedAll(_)
SynthesizedAll(conns) ==
    IF conns = <<>> THEN <<>>
    ELSE LET c == Head(conns)
             t == conf.records[c.spec]
         IN  [k \in 1..Len(t) |-> Synthesized(t[k], c.res)] \o SynthesizedAll(Tail(conns))

\* ------------------------------------------------------------------ claims

\* C1: a Create() that returns no error leaves the machine list with exactly
\* N+M instances: the N containers it provisioned first, in spec order, then
\* the M VMs it provisioned, in spec order.
C1_CreateMachineList ==
    CreateSucceeded =>
        /\ Len(machines) = NumContainers + NumVMs
        /\ Len(Provisions) = NumContainers + NumVMs
        /\ \A k \in 1..NumContainers :
              /\ Provisions[k].fn = "CreateContainer"
              /\ Provisions[k].spec = k
              /\ machines[k] = Provisions[k].inst
        /\ \A j \in 1..NumVMs :
              /\ Provisions[NumContainers + j].fn = "GetCopy"
              /\ Provisions[NumContainers + j].spec = j
              /\ machines[NumContainers + j] = Provisions[NumContainers + j].inst

C1_Witness ==
    /\ op = "Create" /\ ret = NoErr
    /\ NumContainers >= 2 /\ NumVMs >= 2

\* C2: when the provisioning call for the k-th container spec fails, Create()
\* returns that error and the machine list holds exactly the k-1 containers
\* created before the failure.
C2_FailFastPartialList ==
    \A k \in 1..NumContainers :
        (op = "Create" /\ ret = Err("CreateContainer", k)) =>
            /\ Len(machines) = k - 1
            /\ machines = [x \in 1..(k - 1) |-> Provisions[x].inst]

\* C3: after any successful Create() the DNS record set holds exactly the
\* records that call synthesized, one per record template, in container
\* order and then template order; nothing of earlier calls is retained.
C3_RecordsRebuilt ==
    CreateSucceeded => dnsRecords = SynthesizedAll(Connects(calls))

\* C4: a successful Create() followed by a successful Reset() leaves the IP
\* table identical to the one the Create() left.
C4_IPStability ==
    (op = "Reset" /\ ret = NoErr /\ ipsAtCreate[1]) => ips = ipsAtCreate[2]

C4_Witness ==
    /\ op = "Reset" /\ ret = NoErr /\ ipsAtCreate[1]
    /\ NumContainers >= 2
    /\ Len(ips) = NumContainers
    /\ \A k \in CallsOf("Connect") : calls[k].req = ips[calls[k].spec]

\* C5: the IP table is empty or has one entry per container spec; once
\* populated it never changes; it changes only in a call in which Create()
\* returned no error.
C5_IPTableInvariant ==
    /\ [](Len(ips) \in {0, NumContainers})
    /\ [][ /\ (ips # <<>> => ips' = ips)
           /\ (ips' # ips => CreateSucceeded') ]_vars

C5_Witness ==
    /\ op = "Create" /\ ret # NoErr
    /\ ips # <<>>
    /\ Len(calls) >= 2

\* C6: every record a Create() appends is its template with the target
\* FormatIP(octet Connect returned for that container) when the template's
\* target is empty and the template's target otherwise; type and name are
\* the template's.
C6_DNSDefaulting ==
    [][ CreateRan' => dnsRecords' = dnsRecords \o SynthesizedAll(Connects(calls')) ]_vars

C6_Witness ==
    /\ op = "Create"
    /\ \E c \in Range(Connects(calls)) :
          /\ \E t \in Range(conf.records[c.spec]) : t.RData = EmptyString
          /\ \E t \in Range(conf.records[c.spec]) : t.RData # EmptyString
    /\ \E r \in Range(dnsRecords) : r.RData \in { FormatIP(o) : o \in Range(ips) }
    /\ \E r \in Range(dnsRecords) : r.RData = <<"static.example">>

\* C7: in a Restart() every stop call precedes every start call, start is
\* called only after stop has succeeded on every instance of the machine
\* list, and when a stop call fails Restart() returns its error and calls no
\* start.
C7_RestartOrdering ==
    op = "Restart" =>
        /\ \A i \in CallsOf("Start"), j \in CallsOf("Stop") : j < i
        /\ CallsOf("Start") # {} =>
              \A k \in 1..Len(machines) :
                  \E j \in CallsOf("Stop") :
                      calls[j].inst = machines[k] /\ calls[j].err = NoErr
        /\ \A j \in CallsOf("Stop") :
              calls[j].err # NoErr => (ret = calls[j].err /\ CallsOf("Start") = {})

C7_Witness ==
    /\ op = "Restart" /\ ret = NoErr
    /\ Len(machines) >= 2
    /\ Cardinality(CallsOf("Stop")) = Len(machines)
    /\ Cardinality(CallsOf("Start")) = Len(machines)

\* C8: Reset() runs Close(), Create(), Start() in that order; the call that
\* fails is the last call made and its error is what Reset() returns, so a
\* failing Close() is followed by no provisioning, connect or start call and
\* a failing Create() by no start call.
C8_ResetShortCircuit ==
    op = "Reset" =>
        /\ \A p, q \in 1..Len(calls) : p < q => Phase(calls[p]) <= Phase(calls[q])
        /\ \A p \in 1..Len(calls) :
              calls[p].err # NoErr => (p = Len(calls) /\ ret = calls[p].err)
        /\ (\A p \in 1..Len(calls) : calls[p].err = NoErr) =>
              /\ ret = NoErr
              /\ Len(Provisions) = NumContainers + NumVMs
              /\ Cardinality(CallsOf("Start")) = Len(machines)

C8_Witness ==
    /\ op = "Reset" /\ ret # NoErr
    /\ \E p \in CallsOf("Close") : calls[p].err # NoErr
    /\ Len(calls) >= 2

\* C9: Close() releases the instances in machine-list order; at the first
\* failure it returns that error, releases no later instance and leaves the
\* machine list as it was; when every release succeeds the list is empty.
C9_Close ==
    [][ op' = "Close" =>
          /\ Len(calls') <= Len(machines)
          /\ \A k \in 1..Len(calls') :
                /\ calls'[k].fn = "Close"
                /\ calls'[k].inst = machines[k]
                /\ k < Len(calls') => calls'[k].err = NoErr
          /\ IF \E k \in 1..Len(calls') : calls'[k].err # NoErr
             THEN /\ ret' = calls'[Len(calls')].err
                  /\ machines' = machines
             ELSE /\ ret' = NoErr
                  /\ Len(calls') = Len(machines)
                  /\ machines' = <<>> ]_vars

C9_Witness ==
    /\ op = "Close" /\ ret # NoErr
    /\ Len(calls) >= 2
    /\ machines # <<>>
    /\ machines[1] \in released

\* C10: Start() and Stop() call their primitive on the instances in
\* machine-list order; the first failing call is the last call made and its
\* error is returned; without a failure every instance is called.
C10_StartStopFailFast ==
    op \in {"Start", "Stop"} =>
        /\ Len(calls) <= Len(machines)
        /\ \A k \in 1..Len(calls) :
              /\ calls[k].fn = op
              /\ calls[k].inst = machines[k]
              /\ k < Len(calls) => calls[k].err = NoErr
        /\ IF \E k \in 1..Len(calls) : calls[k].err # NoErr
           THEN ret = calls[Len(calls)].err
           ELSE ret = NoErr /\ Len(calls) = Len(machines)

C10_Witness ==
    /\ op = "Stop" /\ ret # NoErr
    /\ Len(calls) = 2
    /\ Len(machines) = 3

\* C11: after a Close() that returned no error, Start() calls no instance
\* primitive, changes nothing of the controller and returns no error.
C11_StartAfterClose ==
    [][ (op = "Close" /\ ret = NoErr /\ op' = "Start") =>
          /\ calls' = <<>>
          /\ ret' = NoErr
          /\ <<machines, ips, dnsRecords>>' = <<machines, ips, dnsRecords>>
          /\ <<provisioned, released, bound, nextOctet>>'
                = <<provisioned, released, bound, nextOctet>> ]_vars

C11_Witness ==
    /\ op = "Start" /\ ret = NoErr /\ calls = <<>>
    /\ machines = <<>>
    /\ Cardinality(released) >= 2

\* C13: every instance a provisioning collaborator has returned and that has
\* not been released is in the machine list.
C13_NoLeak ==
    \A m \in 1..provisioned : m \notin released => m \in Range(machines)

\* C14: a Reset() that returns no error has released every instance of the
\* previous machine list, leaves a machine list of the N+M instances it
\* provisioned, and has called start on each of them, in list order, after
\* provisioning the last of them.
C14_ResetRebuilds ==
    [][ (op' = "Reset" /\ ret' = NoErr) =>
          LET n == NumContainers + NumVMs
              k0 == Len(calls') - n
          IN  /\ Range(machines) \subseteq released'
              /\ Len(machines') = n
              /\ Len(Provisions') = n
              /\ \A k \in 1..n :
                    /\ machines'[k] = Provisions'[k].inst
                    /\ machines'[k] > provisioned
                    /\ machines'[k] \notin released'
                    /\ calls'[k0 + k].fn = "Start"
                    /\ calls'[k0 + k].inst = machines'[k]
                    /\ calls'[k0 + k].err = NoErr
              /\ \A k \in 1..k0 : calls'[k].fn # "Start" ]_vars

C14_Witness ==
    /\ op = "Reset" /\ ret = NoErr
    /\ Len(machines) >= 2
    /\ Cardinality(CallsOf("Close")) >= 2
    /\ Cardinality(CallsOf("Start")) = Len(machines)

\* The Connect calls of a log.
IsConnect(c) == c.fn = "Connect"
ConnectCalls(log) == SelectSeq(log, IsConnect)

\* C15: when the IP table is populated at the start of Create(), the Connect
\* call for the container at spec index i asks for exactly the octet at
\* index i of the table; when it is empty every Connect call asks for
\* automatic assignment, and a Create() that succeeds leaves as the table
\* the octets Connect returned, in spec order.
C15_AddressReuse ==
    [][ CreateRan' =>
          /\ \A c \in Range(ConnectCalls(calls')) :
                IF ips # <<>> THEN c.req = ips[c.spec] /\ c.req # Auto
                ELSE c.req = Auto
          /\ (ips = <<>> /\ CreateSucceeded') =>
                /\ Len(ips') = NumContainers
                /\ \A c \in Range(ConnectCalls(calls')) : ips'[c.spec] = c.res ]_vars

C15_Witness ==
    /\ op = "Reset" /\ ret = NoErr
    /\ NumContainers >= 2
    /\ Len(ConnectCalls(calls)) = NumContainers
    /\ \A c \in Range(ConnectCalls(calls)) : c.req = ips[c.spec] /\ c.req # Auto
    /\ provisioned > NumContainers + NumVMs

\* C16: Start(), Stop() and Restart(), failing or not, leave the machine
\* list, the IP table and the DNS record set as they were; Close() leaves
\* the IP table and the DNS record set as they were.
C16_Frame ==
    [][ /\ op' \in {"Start", "Stop", "Restart"} =>
              <<machines, ips, dnsRecords>>' = <<machines, ips, dnsRecords>>
        /\ op' = "Close" => <<ips, dnsRecords>>' = <<ips, dnsRecords>> ]_vars

C16_Witness ==
    /\ op = "Restart" /\ ret # NoErr
    /\ Len(machines) >= 2
    /\ ips # <<>>
    /\ dnsRecords # <<>>
    /\ \E k \in CallsOf("Start") : calls[k].err # NoErr

\* ------------------------------------------------------ the tag validator
MaxTagLen == 3

\* No exercise controller: the state the controller variables rest in while
\* another part of the program is examined.
NoExercise ==
    /\ conf = [records |-> <<>>, VBoxConfig |-> <<>>]
    /\ machines = <<>>
    /\ ips = <<>>
    /\ dnsRecords = <<>>
    /\ nextOctet = FirstOctet
    /\ bound = {}
    /\ provisioned = 0
    /\ released = {}
    /\ calls = <<>>
    /\ returns = <<>>
    /\ ipsAtCreate = <<FALSE, <<>> >>

\* Characters are their code points: a-z is 97..122, 0-9 is 48..57 and
\* '-' is 45.
LowerOrDigit == (97..122) \cup (48..57)
LowerDigitOrHyphen == LowerOrDigit \cup {45}

\* One character of a class, or any number of them.
One(class)  == [class |-> class, star |-> FALSE]
Star(class) == [class |-> class, star |-> TRUE]

\* ^[a-z0-9][a-z0-9-]*$ : a pattern that lets a tag end in any interior
\* character.
tagRawRegexpOpenEnd == << One(LowerOrDigit), Star(LowerDigitOrHyphen) >>

\* ^[a-z0-9][a-z0-9-]*[a-z0-9]$ : the pattern between ^ and $, atom by atom.
tagRawRegexp ==
    << One(LowerOrDigit), Star(LowerDigitOrHyphen), One(LowerOrDigit) >>

\* Whether the atoms of re from the i-th on match s from its j-th character
\* to its end: ^ anchors the first atom at the first character and $ the
\* last one at the end of the text.
RECURSIVE MatchFrom(_, _, _, _)
MatchFrom(re, i, s, j) ==
    IF i > Len(re) THEN j > Len(s)
    ELSE IF re[i].star
         THEN \/ MatchFrom(re, i + 1, s, j)
              \/ /\ j <= Len(s)
                 /\ s[j] \in re[i].class
                 /\ MatchFrom(re, i, s, j + 1)
         ELSE /\ j <= Len(s)
              /\ s[j] \in re[i].class
              /\ MatchFrom(re, i + 1, s, j + 1)

\* tagRegex.MatchString(s)
MatchString(s) == MatchFrom(tagRawRegexp, 1, s, 1)

\* The strings the spec names: "abc-123", "ab", "a", "-abc", "ABC", "", "a_b".
TagAbc123  == <<97, 98, 99, 45, 49, 50, 51>>
TagAb      == <<97, 98>>
TagA       == <<97>>
TagHyphenAbc == <<45, 97, 98, 99>>
TagUpperABC  == <<65, 66, 67>>
TagEmpty   == <<>>
TagAUnderscoreB == <<97, 95, 98>>
TagExamples ==
    {TagAbc123, TagAb, TagA, TagHyphenAbc, TagUpperABC, TagEmpty, TagAUnderscoreB}

\* The characters tags are drawn from: the ends of a-z and of 0-9 and their
\* neighbours ('`', '{', '/', ':'), '-', 'A', '_' and a line feed.
TagAlphabet == {97, 122, 96, 123, 48, 57, 47, 58, 45, 65, 95, 10}

TagInputs ==
    TagExamples \cup UNION { [1..n -> TagAlphabet] : n \in 0..MaxTagLen }

InitTag ==
    /\ NoExercise
    /\ NoStore
    /\ tag \in TagInputs
    /\ tagMatch = "unchecked"

ValidateTag ==
    /\ tagMatch = "unchecked"
    /\ tagMatch' = IF MatchString(tag) THEN "match" ELSE "no match"
    /\ UNCHANGED <<tag, exVars, storeVars>>

NextTag == ValidateTag

SpecTag == InitTag /\ [][NextTag]_vars

\* The claim's own words for a character.
IsLowerLetter(c) == 97 <= c /\ c <= 122
IsDigit(c) == 48 <= c /\ c <= 57
IsHyphen(c) == c = 45

\* C12: a tag is accepted if and only if its length is at least 2, its first
\* and last characters are each a lowercase letter or digit and every
\* interior character is a lowercase letter, digit or hyphen; "abc-123" and
\* "ab" are accepted, "a", "-abc", "ABC", "" and "a_b" are rejected.
C12_TagValidation ==
    tagMatch # "unchecked" =>
        /\ tagMatch = "match" <=>
              /\ Len(tag) >= 2
              /\ IsLowerLetter(tag[1]) \/ IsDigit(tag[1])
              /\ IsLowerLetter(tag[Len(tag)]) \/ IsDigit(tag[Len(tag)])
              /\ \A k \in 2..(Len(tag) - 1) :
                    IsLowerLetter(tag[k]) \/ IsDigit(tag[k]) \/ IsHyphen(tag[k])
        /\ tag \in {TagAbc123, TagAb} => tagMatch = "match"
        /\ tag \in {TagA, TagHyphenAbc, TagUpperABC, TagEmpty, TagAUnderscoreB}
              => tagMatch = "no match"

C12_Witness == tag = TagAbc123 /\ tagMatch = "match"

\* ------------------------------------------------- the event config store
MaxProcs == 2
MaxCalls == 3
MaxHooks == 2

Procs == 1..MaxProcs

\* The hooks a store can be built with: saveEventConfig of the event file,
\* which NewEventFile registers, and any other func(EventConfig) error.
HookNames == {"saveEventConfig", "listener"}
HookLists == UNION { [1..n -> HookNames] : n \in 0..MaxHooks }

\* The arguments of SetCapacity and of Finish.
Capacities == {1, 2}
Times == {1}

\* A lock that is taken without waiting for its holder.
CanLockAlways(m) == TRUE

\* m.Lock() returns only when nobody holds m.
CanLock(m) == m = {}

\* A SetCapacity that leaves the config as it is.
SetCapacityDropped(c, n) == c

\* es.conf.Capacity = n
SetCapacityApply(c, n) == [c EXCEPT !.Capacity = n]

\* es.conf.FinishedAt = &t
FinishApply(c, t) == [c EXCEPT !.FinishedAt = <<t>>]

\* A hook loop that goes on after a hook has failed.
RunHooksToTheEnd(err, i, n) == IF i >= n THEN "return" ELSE "hooks"

\* runHooks after the i-th of n hooks returned err: return err at once, or
\* go on with the next hook, or return nil after the last one.
RunHooksNext(err, i, n) == IF err # NoErr \/ i >= n THEN "return" ELSE "hooks"

\* A goroutine that is in no call.
Idle == [pc |-> "idle", op |-> "none", arg |-> 0, i |-> 0, conf |-> <<>>, err |-> NoErr]

\* The locals of a goroutine that has called op(arg) and is at label at.
Entered(o, a, at) == [Idle EXCEPT !.pc = at, !.op = o, !.arg = a]

CallSetCapacity(p) ==
    /\ proc[p].pc = "idle"
    /\ ncalls < MaxCalls
    /\ ncalls' = ncalls + 1
    /\ \E n \in Capacities : proc' = [proc EXCEPT ![p] = Entered("SetCapacity", n, "lock")]
    /\ UNCHANGED <<exVars, tagVars, hooks, esConf, esM, efM, fileConf, fileTeams, hookLog,
                   lastFailed, lastRead, hookFailed, applied>>

CallFinish(p) ==
    /\ proc[p].pc = "idle"
    /\ ncalls < MaxCalls
    /\ ncalls' = ncalls + 1
    /\ \E t \in Times : proc' = [proc EXCEPT ![p] = Entered("Finish", t, "lock")]
    /\ UNCHANGED <<exVars, tagVars, hooks, esConf, esM, efM, fileConf, fileTeams, hookLog,
                   lastFailed, lastRead, hookFailed, applied>>

CallRead(p) ==
    /\ proc[p].pc = "idle"
    /\ ncalls < MaxCalls
    /\ ncalls' = ncalls + 1
    /\ proc' = [proc EXCEPT ![p] = Entered("Read", 0, "lock")]
    /\ UNCHANGED <<exVars, tagVars, hooks, esConf, esM, efM, fileConf, fileTeams, hookLog,
                   lastFailed, lastRead, hookFailed, applied>>

CallSaveTeams(p) ==
    /\ proc[p].pc = "idle"
    /\ ncalls < MaxCalls
    /\ ncalls' = ncalls + 1
    /\ proc' = [proc EXCEPT ![p] = Entered("saveTeams", 1, "teamsLock")]
    /\ UNCHANGED <<exVars, tagVars, hooks, esConf, esM, efM, fileConf, fileTeams, hookLog,
                   lastFailed, lastRead, hookFailed, applied>>

\* es.m.Lock()
StoreLock(p) ==
    /\ proc[p].pc = "lock"
    /\ CanLock(esM)
    /\ esM' = esM \cup {p}
    /\ proc' = [proc EXCEPT ![p].pc = IF proc[p].op = "Read" THEN "read" ELSE "mutate"]
    /\ UNCHANGED <<exVars, tagVars, hooks, esConf, efM, fileConf, fileTeams, ncalls, hookLog, lastFailed,
                   lastRead, hookFailed, applied>>

\* Read: return es.conf, then the deferred es.m.Unlock().
ReadReturn(p) ==
    /\ proc[p].pc = "read"
    /\ lastRead' = esConf
    /\ esM' = esM \ {p}
    /\ proc' = [proc EXCEPT ![p] = Idle]
    /\ UNCHANGED <<exVars, tagVars, hooks, esConf, efM, fileConf, fileTeams, ncalls, hookLog, lastFailed,
                   hookFailed, applied>>

\* SetCapacity, Finish: the assignment to es.conf, and the entry of runHooks.
Mutate(p) ==
    /\ proc[p].pc = "mutate"
    /\ esConf' = IF proc[p].op = "SetCapacity"
                 THEN SetCapacityApply(esConf, proc[p].arg)
                 ELSE FinishApply(esConf, proc[p].arg)
    /\ applied' = IF proc[p].op = "SetCapacity"
                  THEN [applied EXCEPT !.Capacity = proc[p].arg]
                  ELSE [applied EXCEPT !.FinishedAt = <<proc[p].arg>>]
    /\ hookLog' = <<>>
    /\ lastFailed' = <<>>
    /\ lastRead' = <<>>
    /\ proc' = [proc EXCEPT ![p].pc = RunHooksNext(NoErr, 0, Len(hooks)), ![p].i = 1]
    /\ UNCHANGED <<exVars, tagVars, hooks, esM, efM, fileConf, fileTeams, ncalls, hookFailed>>

\* What a hook invocation leaves behind: its log entry, its error in err,
\* and the next position of the loop.
HookDone(p, arg, e) ==
    /\ hookLog' = Append(hookLog, [p |-> p, i |-> proc[p].i, arg |-> arg, err |-> e])
    /\ hookFailed' = (hookFailed \/ e # NoErr)
    /\ proc' = [proc EXCEPT ![p].pc = RunHooksNext(e, proc[p].i, Len(hooks)),
                            ![p].i = proc[p].i + 1,
                            ![p].err = e]

\* h(es.conf) for a hook other than saveEventConfig: it returns nil or an
\* error.
HookListener(p) ==
    /\ proc[p].pc = "hooks"
    /\ hooks[proc[p].i] = "listener"
    /\ \E ok \in BOOLEAN :
          HookDone(p, esConf, IF ok THEN NoErr ELSE Err("listener", proc[p].i))
    /\ UNCHANGED <<exVars, tagVars, hooks, esConf, esM, efM, fileConf, fileTeams, ncalls, lastFailed,
                   lastRead, applied>>

\* h(es.conf) for saveEventConfig: es.conf is copied into its parameter.
HookSaveCall(p) ==
    /\ proc[p].pc = "hooks"
    /\ hooks[proc[p].i] = "saveEventConfig"
    /\ proc' = [proc EXCEPT ![p].pc = "efLock", ![p].conf = esConf]
    /\ UNCHANGED <<exVars, tagVars, hooks, esConf, esM, efM, fileConf, fileTeams, ncalls, hookLog,
                   lastFailed, lastRead, hookFailed, applied>>

\* saveEventConfig: ef.m.Lock()
EfLock(p) ==
    /\ proc[p].pc = "efLock"
    /\ CanLock(efM)
    /\ efM' = efM \cup {p}
    /\ proc' = [proc EXCEPT ![p].pc = "efSave"]
    /\ UNCHANGED <<exVars, tagVars, hooks, esConf, esM, fileConf, fileTeams, ncalls, hookLog, lastFailed,
                   lastRead, hookFailed, applied>>

\* saveEventConfig: ef.file.EventConfig = conf; return ef.save(), which
\* fails or not; then the deferred ef.m.Unlock().
EfSave(p) ==
    /\ proc[p].pc = "efSave"
    /\ fileConf' = proc[p].conf
    /\ efM' = efM \ {p}
    /\ \E ok \in BOOLEAN :
          HookDone(p, proc[p].conf, IF ok THEN NoErr ELSE Err("save", proc[p].i))
    /\ UNCHANGED <<exVars, tagVars, hooks, esConf, esM, fileTeams, ncalls, lastFailed, lastRead, applied>>

\* SetCapacity, Finish: return what runHooks returned, then the deferred
\* es.m.Unlock().
Return(p) ==
    /\ proc[p].pc = "return"
    /\ lastFailed' = IF proc[p].err # NoErr THEN <<proc[p].op, proc[p].arg>> ELSE lastFailed
    /\ esM' = esM \ {p}
    /\ proc' = [proc EXCEPT ![p] = Idle]
    /\ UNCHANGED <<exVars, tagVars, hooks, esConf, efM, fileConf, fileTeams, ncalls, hookLog, hookFailed,
                   lastRead, applied>>

\* saveTeams: ef.m.Lock()
TeamsLock(p) ==
    /\ proc[p].pc = "teamsLock"
    /\ CanLock(efM)
    /\ efM' = efM \cup {p}
    /\ proc' = [proc EXCEPT ![p].pc = "teamsSave"]
    /\ UNCHANGED <<exVars, tagVars, hooks, esConf, esM, fileConf, fileTeams, ncalls, hookLog, lastFailed,
                   lastRead, hookFailed, applied>>

\* saveTeams: ef.file.Teams = storeTeam; return ef.save(), whose result
\* goes to the caller alone; then the deferred ef.m.Unlock().
TeamsSave(p) ==
    /\ proc[p].pc = "teamsSave"
    /\ fileTeams' = <<proc[p].arg>>
    /\ efM' = efM \ {p}
    /\ proc' = [proc EXCEPT ![p] = Idle]
    /\ UNCHANGED <<exVars, tagVars, hooks, esConf, esM, fileConf, ncalls, hookLog, lastFailed, hookFailed,
                   lastRead, applied>>

\* NewEventFile: the store starts from the config of the file;
\* NewEventConfigStore: with the hooks it is given.
InitStore ==
    /\ NoExercise
    /\ NoTag
    /\ hooks \in HookLists
    /\ esConf = [Capacity |-> 0, FinishedAt |-> <<>>]
    /\ fileConf = esConf
    /\ applied = esConf
    /\ fileTeams = <<>>
    /\ esM = {}
    /\ efM = {}
    /\ proc = [p \in Procs |-> Idle]
    /\ ncalls = 0
    /\ hookLog = <<>>
    /\ lastFailed = <<>>
    /\ lastRead = <<>>
    /\ hookFailed = FALSE

StoreStep(p) ==
    \/ CallSetCapacity(p)
    \/ CallFinish(p)
    \/ CallRead(p)
    \/ CallSaveTeams(p)
    \/ StoreLock(p)
    \/ ReadReturn(p)
    \/ Mutate(p)
    \/ HookListener(p)
    \/ HookSaveCall(p)
    \/ EfLock(p)
    \/ EfSave(p)
    \/ Return(p)
    \/ TeamsLock(p)
    \/ TeamsSave(p)

NextStore == \E p \in Procs : StoreStep(p)

SpecStore == InitStore /\ [][NextStore]_vars

\* ------------------------------------------------ the store's properties
\* p takes the step that returns from its SetCapacity or Finish.
Returns(p) == proc[p].pc = "return" /\ proc'[p].pc = "idle"

\* p takes the step that returns from its Read.
ReadReturns(p) == proc[p].pc = "read" /\ proc'[p].pc = "idle"

\* Whether config c carries the mutation op(arg).
Carries(c, o, a) ==
    /\ o = "SetCapacity" => c.Capacity = a
    /\ o = "Finish" => c.FinishedAt = <<a>>

\* C17: when SetCapacity(n) or Finish(t) returns, the hooks invoked for it
\* were invoked by the caller itself, in registration order from the first
\* one on, each with the config that already carries the mutation; a hook
\* that failed is the last one invoked and its error is what the call
\* returns; if none failed every hook was invoked and the call returns nil.
C17_HookNotification ==
    [][ \A p \in Procs : Returns(p) =>
          LET n == Len(hookLog) IN
          /\ n <= Len(hooks)
          /\ \A k \in 1..n :
                /\ hookLog[k].i = k
                /\ hookLog[k].p = p
                /\ hookLog[k].arg = esConf
                /\ Carries(hookLog[k].arg, proc[p].op, proc[p].arg)
          /\ \A k \in 1..(n - 1) : hookLog[k].err = NoErr
          /\ IF n > 0 /\ hookLog[n].err # NoErr
             THEN proc[p].err = hookLog[n].err
             ELSE n = Len(hooks) /\ proc[p].err = NoErr ]_vars

C17_Witness ==
    /\ \A p \in Procs : proc[p].pc = "idle"
    /\ lastFailed # <<>>
    /\ Len(hooks) = 2
    /\ Len(hookLog) = 1
    /\ hookLog[1].err # NoErr

\* C18: when SetCapacity(n) or Finish(t) returns a hook error, the config in
\* memory still carries the mutation, and a Read() that returns afterwards,
\* with no other mutation in between, returns a config with Capacity n
\* (resp. FinishedAt t).
C18_NoRollback ==
    [][ \A p \in Procs :
          /\ (Returns(p) /\ proc[p].err # NoErr) =>
                Carries(esConf', proc[p].op, proc[p].arg)
          /\ (ReadReturns(p) /\ lastFailed # <<>>) =>
                Carries(lastRead', lastFailed[1], lastFailed[2]) ]_vars

C18_Witness ==
    /\ lastFailed # <<>>
    /\ lastFailed[1] = "SetCapacity"
    /\ lastRead # <<>>
    /\ lastRead.Capacity = lastFailed[2]
    /\ fileConf.Capacity # lastFailed[2]

\* Where a goroutine holds the store mutex, and the event-file mutex.
InStore(p) == proc[p].pc \in {"read", "mutate", "hooks", "efLock", "efSave", "return"}
InFile(p)  == proc[p].pc \in {"efSave", "teamsSave"}

\* No call is in progress.
Quiescent == \A p \in Procs : proc[p].pc = "idle"

\* A goroutine that is not waiting for a mutex somebody holds.
CanStep(p) ==
    /\ proc[p].pc # "idle"
    /\ proc[p].pc = "lock" => esM = {}
    /\ proc[p].pc \in {"efLock", "teamsLock"} => efM = {}

\* C19: at most one call at a time is between taking and releasing the store
\* mutex, and at most one between taking and releasing the event-file mutex;
\* the config in memory carries the latest mutation of each field; once all
\* calls have returned, with saveEventConfig registered and no hook failed,
\* the config saveEventConfig was last given equals the config in memory;
\* and while a call is in progress some goroutine can take a step.
C19_Atomic ==
    /\ \A p, q \in Procs : p # q =>
          /\ ~(InStore(p) /\ InStore(q))
          /\ ~(InFile(p) /\ InFile(q))
    /\ Quiescent => esConf = applied
    /\ (Quiescent /\ ~hookFailed /\ "saveEventConfig" \in Range(hooks)) =>
          fileConf = esConf
    /\ ~Quiescent => \E p \in Procs : CanStep(p)

C19_Witness ==
    /\ ~hookFailed
    /\ "saveEventConfig" \in Range(hooks)
    /\ esConf.FinishedAt # <<>>
    /\ fileConf = esConf
    /\ \E p, q \in Procs :
          /\ proc[p].pc = "return" /\ proc[p].op = "SetCapacity"
          /\ proc[q].pc = "lock" /\ proc[q].op = "Finish"

====
